---- MODULE Spec2Model ----
\* Model of the Attendance ledger contract (contracts/attendance.sol).
\* Each function is an operator from the contract state and the call's
\* inputs to an outcome [err, st]: the revert reason (or Ok) returned to the
\* sender and the state the call leaves. Each state-changing function is one
\* action that installs that state. Counters are uint256 with checked
\* arithmetic and stay far below 2^256 here.
EXTENDS Integers, Sequences, FiniteSets, TLC

\* ---------------------------------------------------------------- bounds
NumAddr == 2          \* non-null addresses 1..NumAddr
NumMatric == 2        \* non-empty matric numbers <<1>>..<<NumMatric>>
MaxHalfDays == 4      \* block timestamps are ONE_DAY .. MaxHalfDays half days
MaxEvents == 3        \* transactions are submitted while the log is shorter
Deployer == 1         \* the address that deploys the contract
MaxClientEvents == 2  \* the client starts writes while the log is shorter

\* ------------------------------------------------------------- constants
ONE_DAY == 86400      \* `1 days`

NullAddress == 0      \* address(0)
EmptyString == << >>  \* ""

Addr == 0..NumAddr
Callers == 1..NumAddr
MatricNumbers == {EmptyString} \cup {<<i>> : i \in 1..NumMatric}
\* the contract looks at the length of a name only: one empty, one not
Names == {EmptyString, <<1>>}
\* block timestamps on a half-day grid, the first at the start of day 1
Times == {(k * ONE_DAY) \div 2 : k \in 2..MaxHalfDays}
\* the day indices the block timestamps fall in
Days == 1..(MaxHalfDays \div 2)

\* revert reasons of the contract
ErrOnlyAdmin == "Only admin can call this function"
ErrNotActive == "Attendance system is not active"
ErrInvalidAddress == "Invalid address"
ErrInvalidMatric == "Invalid matric number"
ErrInvalidName == "Invalid name"
ErrUserRegistered == "User already registered"
ErrMatricRegistered == "Matric number already registered"
ErrNotRegistered == "Student not registered"
ErrAlreadyMarked == "Attendance already marked for today"
ErrNotFound == "Student not found"
Ok == "ok"

\* default (zero) values of the storage mappings
NoStudent ==
  [matricNumber |-> EmptyString, name |-> EmptyString,
   isRegistered |-> FALSE, registrationDate |-> 0]
NoRecord ==
  [timestamp |-> 0, isPresent |-> FALSE, matricNumber |-> EmptyString]

VARIABLES
  creator,            \* msg.sender of the constructor
  admin,
  isSystemActive,
  students,
  matricToAddress,
  attendanceRecords,
  attendanceCount,
  registeredUsers,
  count,
  events,             \* the event log, oldest first
  blockTimestamp,     \* block.timestamp of the block being executed
  attendanceService,  \* the client's singleton service, or NoService
  loading,            \* useContractWrite: loading
  error,              \* useContractWrite: error
  pc,                 \* the client's write path: "idle" or "awaiting"
  request,            \* the ledger call the write path is awaiting
  submissions,        \* ledger calls submitted by the latest write
  thrown,             \* what the latest write threw to its caller
  web3Address,        \* useWeb3: address (set with provider and signer)
  isAdmin,            \* useWeb3: isAdmin
  web3Error,          \* useWeb3: error
  connecting          \* connectWallet is awaiting service.getAdmin()

storage ==
  <<admin, isSystemActive, students, matricToAddress, attendanceRecords,
    attendanceCount, registeredUsers, count>>
web3 == <<web3Address, isAdmin, web3Error, connecting>>
client ==
  <<attendanceService, loading, error, pc, request, submissions, thrown,
    web3Address, isAdmin, web3Error, connecting>>
vars ==
  <<creator, admin, isSystemActive, students, matricToAddress,
    attendanceRecords, attendanceCount, registeredUsers, count, events,
    blockTimestamp, attendanceService, loading, error, pc, request,
    submissions, thrown, web3Address, isAdmin, web3Error, connecting>>

\* the contract state as one value, events included
Ledger ==
  [admin |-> admin, isSystemActive |-> isSystemActive, students |-> students,
   matricToAddress |-> matricToAddress,
   attendanceRecords |-> attendanceRecords,
   attendanceCount |-> attendanceCount, registeredUsers |-> registeredUsers,
   count |-> count, events |-> events]

\* ---------------------------------------------------------- constructor
\* mutant: the constructor does not store its sender
ConstructorNoAdmin(sender) ==
  [admin |-> NullAddress, isSystemActive |-> TRUE,
   students |-> [a \in Addr |-> NoStudent],
   matricToAddress |-> [m \in MatricNumbers |-> NullAddress],
   attendanceRecords |-> [a \in Addr |-> [d \in Days |-> NoRecord]],
   attendanceCount |-> [a \in Addr |-> 0],
   registeredUsers |-> << >>,
   count |-> 0,
   events |-> << >>]

\* mutant: the constructor leaves the system switched off
ConstructorInactive(sender) ==
  [admin |-> sender, isSystemActive |-> FALSE,
   students |-> [a \in Addr |-> NoStudent],
   matricToAddress |-> [m \in MatricNumbers |-> NullAddress],
   attendanceRecords |-> [a \in Addr |-> [d \in Days |-> NoRecord]],
   attendanceCount |-> [a \in Addr |-> 0],
   registeredUsers |-> << >>,
   count |-> 0,
   events |-> << >>]

Constructor(sender) ==
  [admin |-> sender, isSystemActive |-> TRUE,
   students |-> [a \in Addr |-> NoStudent],
   matricToAddress |-> [m \in MatricNumbers |-> NullAddress],
   attendanceRecords |-> [a \in Addr |-> [d \in Days |-> NoRecord]],
   attendanceCount |-> [a \in Addr |-> 0],
   registeredUsers |-> << >>,
   count |-> 0,
   events |-> << >>]

\* ------------------------------------------------------------- outcomes
Reverted(s, reason) == [err |-> reason, st |-> s]
Committed(s) == [err |-> Ok, st |-> s]

\* ---------------------------------------------------------- registerUser
\* mutant: the matric number is not checked for an existing binding
RegisterUserCheckNoMatricDup(s, sender, user, matricNumber, name) ==
  IF sender # s.admin THEN ErrOnlyAdmin
  ELSE IF user = NullAddress THEN ErrInvalidAddress
  ELSE IF ~(Len(matricNumber) > 0) THEN ErrInvalidMatric
  ELSE IF ~(Len(name) > 0) THEN ErrInvalidName
  ELSE IF s.students[user].isRegistered THEN ErrUserRegistered
  ELSE Ok

\* mutant: the user is not checked for an existing registration
RegisterUserCheckNoUserDup(s, sender, user, matricNumber, name) ==
  IF sender # s.admin THEN ErrOnlyAdmin
  ELSE IF user = NullAddress THEN ErrInvalidAddress
  ELSE IF ~(Len(matricNumber) > 0) THEN ErrInvalidMatric
  ELSE IF ~(Len(name) > 0) THEN ErrInvalidName
  ELSE IF s.matricToAddress[matricNumber] # NullAddress
    THEN ErrMatricRegistered
  ELSE Ok

\* mutant: the name is not checked for emptiness
RegisterUserCheckNoName(s, sender, user, matricNumber, name) ==
  IF sender # s.admin THEN ErrOnlyAdmin
  ELSE IF user = NullAddress THEN ErrInvalidAddress
  ELSE IF ~(Len(matricNumber) > 0) THEN ErrInvalidMatric
  ELSE IF s.students[user].isRegistered THEN ErrUserRegistered
  ELSE IF s.matricToAddress[matricNumber] # NullAddress
    THEN ErrMatricRegistered
  ELSE Ok

\* mutant: neither the user nor the matric number is checked for an
\* existing registration
RegisterUserCheckNoDup(s, sender, user, matricNumber, name) ==
  IF sender # s.admin THEN ErrOnlyAdmin
  ELSE IF user = NullAddress THEN ErrInvalidAddress
  ELSE IF ~(Len(matricNumber) > 0) THEN ErrInvalidMatric
  ELSE IF ~(Len(name) > 0) THEN ErrInvalidName
  ELSE Ok

\* mutant: the duplicate checks come before the checks of the arguments
RegisterUserCheckDupFirst(s, sender, user, matricNumber, name) ==
  IF sender # s.admin THEN ErrOnlyAdmin
  ELSE IF s.students[user].isRegistered THEN ErrUserRegistered
  ELSE IF s.matricToAddress[matricNumber] # NullAddress
    THEN ErrMatricRegistered
  ELSE IF user = NullAddress THEN ErrInvalidAddress
  ELSE IF ~(Len(matricNumber) > 0) THEN ErrInvalidMatric
  ELSE IF ~(Len(name) > 0) THEN ErrInvalidName
  ELSE Ok

\* mutant: registerUser carries the systemActive modifier too
RegisterUserCheckGated(s, sender, user, matricNumber, name) ==
  IF sender # s.admin THEN ErrOnlyAdmin
  ELSE IF ~s.isSystemActive THEN ErrNotActive
  ELSE IF user = NullAddress THEN ErrInvalidAddress
  ELSE IF ~(Len(matricNumber) > 0) THEN ErrInvalidMatric
  ELSE IF ~(Len(name) > 0) THEN ErrInvalidName
  ELSE IF s.students[user].isRegistered THEN ErrUserRegistered
  ELSE IF s.matricToAddress[matricNumber] # NullAddress
    THEN ErrMatricRegistered
  ELSE Ok

\* mutant: the user is not checked against address(0)
RegisterUserCheckNoAddress(s, sender, user, matricNumber, name) ==
  IF sender # s.admin THEN ErrOnlyAdmin
  ELSE IF ~(Len(matricNumber) > 0) THEN ErrInvalidMatric
  ELSE IF ~(Len(name) > 0) THEN ErrInvalidName
  ELSE IF s.students[user].isRegistered THEN ErrUserRegistered
  ELSE IF s.matricToAddress[matricNumber] # NullAddress
    THEN ErrMatricRegistered
  ELSE Ok

\* mutant: the admin cannot register itself
RegisterUserCheckNotSelf(s, sender, user, matricNumber, name) ==
  IF sender # s.admin THEN ErrOnlyAdmin
  ELSE IF user = NullAddress \/ user = sender THEN ErrInvalidAddress
  ELSE IF ~(Len(matricNumber) > 0) THEN ErrInvalidMatric
  ELSE IF ~(Len(name) > 0) THEN ErrInvalidName
  ELSE IF s.students[user].isRegistered THEN ErrUserRegistered
  ELSE IF s.matricToAddress[matricNumber] # NullAddress
    THEN ErrMatricRegistered
  ELSE Ok

RegisterUserCheck(s, sender, user, matricNumber, name) ==
  IF sender # s.admin THEN ErrOnlyAdmin
  ELSE IF user = NullAddress THEN ErrInvalidAddress
  ELSE IF ~(Len(matricNumber) > 0) THEN ErrInvalidMatric
  ELSE IF ~(Len(name) > 0) THEN ErrInvalidName
  ELSE IF s.students[user].isRegistered THEN ErrUserRegistered
  ELSE IF s.matricToAddress[matricNumber] # NullAddress
    THEN ErrMatricRegistered
  ELSE Ok

\* mutant: the user is not pushed to registeredUsers
RegisterUserEffectNoPush(s, user, matricNumber, name, now) ==
  [s EXCEPT
    !.students[user] =
      [matricNumber |-> matricNumber, name |-> name,
       isRegistered |-> TRUE, registrationDate |-> now],
    !.matricToAddress[matricNumber] = user,
    !.count = @ + 1,
    !.events = Append(@,
      [type |-> "UserRegistered", user |-> user,
       matricNumber |-> matricNumber, name |-> name])]

\* mutant: the registration date is the start of the day, not the block time
RegisterUserEffectDayStart(s, user, matricNumber, name, now) ==
  [s EXCEPT
    !.students[user] =
      [matricNumber |-> matricNumber, name |-> name,
       isRegistered |-> TRUE,
       registrationDate |-> (now \div ONE_DAY) * ONE_DAY],
    !.matricToAddress[matricNumber] = user,
    !.registeredUsers = Append(@, user),
    !.count = @ + 1,
    !.events = Append(@,
      [type |-> "UserRegistered", user |-> user,
       matricNumber |-> matricNumber, name |-> name])]

\* mutant: the matric number is not bound to the user
RegisterUserEffectNoBind(s, user, matricNumber, name, now) ==
  [s EXCEPT
    !.students[user] =
      [matricNumber |-> matricNumber, name |-> name,
       isRegistered |-> TRUE, registrationDate |-> now],
    !.registeredUsers = Append(@, user),
    !.count = @ + 1,
    !.events = Append(@,
      [type |-> "UserRegistered", user |-> user,
       matricNumber |-> matricNumber, name |-> name])]

\* mutant: the user is put at the head of registeredUsers
RegisterUserEffectPrepend(s, user, matricNumber, name, now) ==
  [s EXCEPT
    !.students[user] =
      [matricNumber |-> matricNumber, name |-> name,
       isRegistered |-> TRUE, registrationDate |-> now],
    !.matricToAddress[matricNumber] = user,
    !.registeredUsers = <<user>> \o @,
    !.count = @ + 1,
    !.events = Append(@,
      [type |-> "UserRegistered", user |-> user,
       matricNumber |-> matricNumber, name |-> name])]

\* mutant: the student record is written without its matric number
RegisterUserEffectNoMatricField(s, user, matricNumber, name, now) ==
  [s EXCEPT
    !.students[user] =
      [matricNumber |-> EmptyString, name |-> name,
       isRegistered |-> TRUE, registrationDate |-> now],
    !.matricToAddress[matricNumber] = user,
    !.registeredUsers = Append(@, user),
    !.count = @ + 1,
    !.events = Append(@,
      [type |-> "UserRegistered", user |-> user,
       matricNumber |-> matricNumber, name |-> name])]

\* mutant: the sender, not the user, is pushed to registeredUsers
RegisterUserEffectPushSender(s, user, matricNumber, name, now) ==
  [s EXCEPT
    !.students[user] =
      [matricNumber |-> matricNumber, name |-> name,
       isRegistered |-> TRUE, registrationDate |-> now],
    !.matricToAddress[matricNumber] = user,
    !.registeredUsers = Append(@, s.admin),
    !.count = @ + 1,
    !.events = Append(@,
      [type |-> "UserRegistered", user |-> user,
       matricNumber |-> matricNumber, name |-> name])]

RegisterUserEffect(s, user, matricNumber, name, now) ==
  [s EXCEPT
    !.students[user] =
      [matricNumber |-> matricNumber, name |-> name,
       isRegistered |-> TRUE, registrationDate |-> now],
    !.matricToAddress[matricNumber] = user,
    !.registeredUsers = Append(@, user),
    !.count = @ + 1,
    !.events = Append(@,
      [type |-> "UserRegistered", user |-> user,
       matricNumber |-> matricNumber, name |-> name])]

registerUser(s, sender, user, matricNumber, name, now) ==
  LET e == RegisterUserCheck(s, sender, user, matricNumber, name)
  IN IF e # Ok THEN Reverted(s, e)
     ELSE Committed(RegisterUserEffect(s, user, matricNumber, name, now))

\* -------------------------------------------------------- markAttendance
Today(now) == now \div ONE_DAY

\* mutant: today's record is not checked
MarkAttendanceCheckNoDup(s, sender, now) ==
  IF ~s.isSystemActive THEN ErrNotActive
  ELSE IF ~s.students[sender].isRegistered THEN ErrNotRegistered
  ELSE Ok

\* mutant: the systemActive modifier is missing
MarkAttendanceCheckNoGate(s, sender, now) ==
  IF ~s.students[sender].isRegistered THEN ErrNotRegistered
  ELSE IF s.attendanceRecords[sender][Today(now)].isPresent
    THEN ErrAlreadyMarked
  ELSE Ok

\* mutant: a mark is refused when the sender has a record for today or for
\* a later day
MarkAttendanceCheckLatest(s, sender, now) ==
  IF ~s.isSystemActive THEN ErrNotActive
  ELSE IF ~s.students[sender].isRegistered THEN ErrNotRegistered
  ELSE IF \E d \in Days :
            d >= Today(now) /\ s.attendanceRecords[sender][d].isPresent
    THEN ErrAlreadyMarked
  ELSE Ok

\* mutant: the sender's registration is not checked
MarkAttendanceCheckNoReg(s, sender, now) ==
  IF ~s.isSystemActive THEN ErrNotActive
  ELSE IF s.attendanceRecords[sender][Today(now)].isPresent
    THEN ErrAlreadyMarked
  ELSE Ok

\* mutant: the admin is refused as a sender
MarkAttendanceCheckNotAdmin(s, sender, now) ==
  IF ~s.isSystemActive THEN ErrNotActive
  ELSE IF sender = s.admin THEN ErrOnlyAdmin
  ELSE IF ~s.students[sender].isRegistered THEN ErrNotRegistered
  ELSE IF s.attendanceRecords[sender][Today(now)].isPresent
    THEN ErrAlreadyMarked
  ELSE Ok

MarkAttendanceCheck(s, sender, now) ==
  IF ~s.isSystemActive THEN ErrNotActive
  ELSE IF ~s.students[sender].isRegistered THEN ErrNotRegistered
  ELSE IF s.attendanceRecords[sender][Today(now)].isPresent
    THEN ErrAlreadyMarked
  ELSE Ok

\* mutant: the counter is not incremented
MarkAttendanceEffectNoCount(s, sender, now) ==
  [s EXCEPT
    !.attendanceRecords[sender][Today(now)] =
      [timestamp |-> now, isPresent |-> TRUE,
       matricNumber |-> s.students[sender].matricNumber],
    !.events = Append(@,
      [type |-> "AttendanceMarked", user |-> sender,
       matricNumber |-> s.students[sender].matricNumber,
       date |-> Today(now), timestamp |-> now])]

\* mutant: the record does not copy the student's matric number
MarkAttendanceEffectNoMatric(s, sender, now) ==
  [s EXCEPT
    !.attendanceRecords[sender][Today(now)] =
      [timestamp |-> now, isPresent |-> TRUE, matricNumber |-> EmptyString],
    !.attendanceCount[sender] = @ + 1,
    !.events = Append(@,
      [type |-> "AttendanceMarked", user |-> sender,
       matricNumber |-> s.students[sender].matricNumber,
       date |-> Today(now), timestamp |-> now])]

\* mutant: one record per sender, whatever the day
MarkAttendanceEffectOneSlot(s, sender, now) ==
  [s EXCEPT
    !.attendanceRecords[sender] =
      [d \in Days |->
        IF d = Today(now) \/ s.attendanceRecords[sender][d].isPresent
        THEN [timestamp |-> now, isPresent |-> TRUE,
              matricNumber |-> s.students[sender].matricNumber]
        ELSE NoRecord],
    !.attendanceCount[sender] = @ + 1,
    !.events = Append(@,
      [type |-> "AttendanceMarked", user |-> sender,
       matricNumber |-> s.students[sender].matricNumber,
       date |-> Today(now), timestamp |-> now])]

\* mutant: the record is written without its isPresent flag
MarkAttendanceEffectNotPresent(s, sender, now) ==
  [s EXCEPT
    !.attendanceRecords[sender][Today(now)] =
      [timestamp |-> now, isPresent |-> FALSE,
       matricNumber |-> s.students[sender].matricNumber],
    !.attendanceCount[sender] = @ + 1,
    !.events = Append(@,
      [type |-> "AttendanceMarked", user |-> sender,
       matricNumber |-> s.students[sender].matricNumber,
       date |-> Today(now), timestamp |-> now])]

\* mutant: the registration counter is incremented as well
MarkAttendanceEffectBumpCount(s, sender, now) ==
  [s EXCEPT
    !.attendanceRecords[sender][Today(now)] =
      [timestamp |-> now, isPresent |-> TRUE,
       matricNumber |-> s.students[sender].matricNumber],
    !.attendanceCount[sender] = @ + 1,
    !.count = @ + 1,
    !.events = Append(@,
      [type |-> "AttendanceMarked", user |-> sender,
       matricNumber |-> s.students[sender].matricNumber,
       date |-> Today(now), timestamp |-> now])]

\* mutant: the record's timestamp is the day index
MarkAttendanceEffectDayAsTime(s, sender, now) ==
  [s EXCEPT
    !.attendanceRecords[sender][Today(now)] =
      [timestamp |-> Today(now), isPresent |-> TRUE,
       matricNumber |-> s.students[sender].matricNumber],
    !.attendanceCount[sender] = @ + 1,
    !.events = Append(@,
      [type |-> "AttendanceMarked", user |-> sender,
       matricNumber |-> s.students[sender].matricNumber,
       date |-> Today(now), timestamp |-> now])]

MarkAttendanceEffect(s, sender, now) ==
  [s EXCEPT
    !.attendanceRecords[sender][Today(now)] =
      [timestamp |-> now, isPresent |-> TRUE,
       matricNumber |-> s.students[sender].matricNumber],
    !.attendanceCount[sender] = @ + 1,
    !.events = Append(@,
      [type |-> "AttendanceMarked", user |-> sender,
       matricNumber |-> s.students[sender].matricNumber,
       date |-> Today(now), timestamp |-> now])]

\* mutant: the counter is incremented before the checks and a failed check
\* returns without undoing it
markAttendanceCountFirst(s, sender, now) ==
  LET e == MarkAttendanceCheck(s, sender, now)
      s1 == [s EXCEPT !.attendanceCount[sender] = @ + 1]
  IN IF e # Ok THEN Reverted(s1, e)
     ELSE Committed(MarkAttendanceEffect(s, sender, now))

markAttendance(s, sender, now) ==
  LET e == MarkAttendanceCheck(s, sender, now)
  IN IF e # Ok THEN Reverted(s, e)
     ELSE Committed(MarkAttendanceEffect(s, sender, now))

\* ---------------------------------------------------------- toggleSystem
\* mutant: the onlyAdmin modifier is missing
ToggleSystemCheckAnyone(s, sender) == Ok

ToggleSystemCheck(s, sender) ==
  IF sender # s.admin THEN ErrOnlyAdmin ELSE Ok

\* mutant: the function switches the system off, whatever it was
ToggleSystemEffectOff(s) ==
  [s EXCEPT
    !.isSystemActive = FALSE,
    !.events = Append(@,
      [type |-> "SystemStateChanged", isActive |-> FALSE])]

\* mutant: the event carries the value the flag had before the call
ToggleSystemEffectOldValue(s) ==
  [s EXCEPT
    !.isSystemActive = ~s.isSystemActive,
    !.events = Append(@,
      [type |-> "SystemStateChanged", isActive |-> s.isSystemActive])]

\* mutant: the toggle starts a new session with the attendance counters
\* at zero
ToggleSystemEffectReset(s) ==
  [s EXCEPT
    !.isSystemActive = ~s.isSystemActive,
    !.attendanceCount = [a \in Addr |-> 0],
    !.events = Append(@,
      [type |-> "SystemStateChanged", isActive |-> ~s.isSystemActive])]

\* mutant: the toggle emits no event
ToggleSystemEffectNoEmit(s) ==
  [s EXCEPT !.isSystemActive = ~s.isSystemActive]

ToggleSystemEffect(s) ==
  [s EXCEPT
    !.isSystemActive = ~s.isSystemActive,
    !.events = Append(@,
      [type |-> "SystemStateChanged", isActive |-> ~s.isSystemActive])]

toggleSystem(s, sender) ==
  LET e == ToggleSystemCheck(s, sender)
  IN IF e # Ok THEN Reverted(s, e)
     ELSE Committed(ToggleSystemEffect(s))

\* ------------------------------------------------------- view functions
\* a view returns a value or reverts with a reason
verifyAttendance(user, date) == attendanceRecords[user][date].isPresent
getAttendanceCount(user) == attendanceCount[user]
getAttendanceRecord(user, date) ==
  LET record == attendanceRecords[user][date]
  IN [timestamp |-> record.timestamp, isPresent |-> record.isPresent]
getRegisteredUsers == registeredUsers
getStudentByAddress(studentAddress) ==
  LET student == students[studentAddress]
  IN [matricNumber |-> student.matricNumber, name |-> student.name,
      isRegistered |-> student.isRegistered,
      registrationDate |-> student.registrationDate]
getStudentAddressByMatric(matricNumber) ==
  LET studentAddress == matricToAddress[matricNumber]
  IN IF studentAddress = NullAddress THEN [err |-> ErrNotFound]
     ELSE [err |-> Ok, ret |-> studentAddress]
getStudentByMatric(matricNumber) ==
  LET studentAddress == matricToAddress[matricNumber]
      student == students[studentAddress]
  IN IF studentAddress = NullAddress THEN [err |-> ErrNotFound]
     ELSE [err |-> Ok,
           ret |-> [studentAddress |-> studentAddress,
                    name |-> student.name,
                    isRegistered |-> student.isRegistered,
                    registrationDate |-> student.registrationDate]]

\* a call of an `external view` function (or of the getter of a public
\* state variable) by sender, the function giving r: no modifier looks at
\* the sender or at the active flag, and the body has no write and no emit
\* mutant: the call is counted in storage
viewCounting(s, sender, r) ==
  IF r.err # Ok THEN Reverted([s EXCEPT !.count = @ + 1], r.err)
  ELSE Committed([s EXCEPT !.count = @ + 1])

view(s, sender, r) ==
  IF r.err # Ok THEN Reverted(s, r.err) ELSE Committed(s)
\* a view without a require returns its value
Returns(value) == [err |-> Ok, ret |-> value]

\* ------------------------------------------------- AttendanceService reads
\* frontend/src/services/attendanceService.ts: the service calls the view
\* and builds its result from the values returned; a revert of the view is
\* thrown to the caller. The contract handle is set by the constructor and
\* never cleared.
AttendanceService_getStudentByAddress(address) ==
  LET r == getStudentByAddress(address)
  IN [err |-> Ok,
      ret |-> [matricNumber |-> r.matricNumber, name |-> r.name,
               isRegistered |-> r.isRegistered,
               registrationDate |-> r.registrationDate]]
AttendanceService_getStudentByMatric(matricNumber) ==
  LET r == getStudentByMatric(matricNumber)
  IN IF r.err # Ok THEN [err |-> r.err]
     ELSE [err |-> Ok,
           ret |-> [address |-> r.ret.studentAddress,
                    matricNumber |-> matricNumber,
                    name |-> r.ret.name,
                    isRegistered |-> r.ret.isRegistered,
                    registrationDate |-> r.ret.registrationDate]]

\* ------------------------------------------------------------ the client
\* frontend/src/services/attendanceService.ts and the hooks of
\* useContractInteraction (in components/StudentRegistration.tsx)
\* `let attendanceService` before initializeService
NoService == [undefined |-> TRUE]
NoSigner == 0              \* signer: null; also a contract on the provider
NoError == "null"
NoRequest == [op |-> "none"]
ErrNotInitialized == "Service not initialized. Call initializeService first."
ErrNoSigner == "No signer available"
\* ethers: a contract whose runner is a provider cannot send a transaction
ErrUnsupported == "contract runner does not support sending transactions"
\* useWeb3: address is null until a wallet is connected; a browser without
\* window.ethereum has no wallet
NoAddress == 0
ErrNoMetaMask == "MetaMask not detected. Please install MetaMask."

\* new AttendanceService(provider, signer): the contract is built on the
\* provider, the signer (or null) is kept
AttendanceService(signer) == [signer |-> signer, runner |-> NoSigner]
\* service.setSigner(signer): the contract is reconnected to the signer
setSigner(service, signer) == [signer |-> signer, runner |-> signer]

\* what a write throws before anything is sent: getAttendanceService, the
\* guard of the service method, the contract's runner
ServiceWriteCheck(service) ==
  IF service = NoService THEN ErrNotInitialized
  ELSE IF service.signer = NoSigner THEN ErrNoSigner
  ELSE IF service.runner = NoSigner THEN ErrUnsupported
  ELSE Ok

\* the writes a user can trigger: the registration form (empty fields are
\* refused by handleSubmit before the write), the attendance button, and
\* service.toggleSystem, which no hook wraps
Requests ==
  {[op |-> "registerUser", hook |-> TRUE, user |-> u, matricNumber |-> m,
    name |-> n] :
     u \in Addr, m \in MatricNumbers \ {EmptyString},
     n \in Names \ {EmptyString}}
  \cup {[op |-> "markAttendance", hook |-> TRUE],
        [op |-> "toggleSystem", hook |-> FALSE]}

\* the outcome of the awaited ledger call, sent by `from`
Pending(req, from) ==
  IF req.op = "registerUser"
    THEN registerUser(Ledger, from, req.user, req.matricNumber, req.name,
                      blockTimestamp)
  ELSE IF req.op = "markAttendance"
    THEN markAttendance(Ledger, from, blockTimestamp)
  ELSE toggleSystem(Ledger, from)

ClientInit ==
  /\ attendanceService = NoService
  /\ loading = FALSE
  /\ error = NoError
  /\ pc = "idle"
  /\ request = NoRequest
  /\ submissions = 0
  /\ thrown = NoError
  /\ web3Address = NoAddress
  /\ isAdmin = FALSE
  /\ web3Error = NoError
  /\ connecting = FALSE

\* ---------------------------------------------------------- transitions
\* the storage and the log take the values the transaction left
Apply(r) ==
  /\ admin' = r.st.admin
  /\ isSystemActive' = r.st.isSystemActive
  /\ students' = r.st.students
  /\ matricToAddress' = r.st.matricToAddress
  /\ attendanceRecords' = r.st.attendanceRecords
  /\ attendanceCount' = r.st.attendanceCount
  /\ registeredUsers' = r.st.registeredUsers
  /\ count' = r.st.count
  /\ events' = r.st.events

Init ==
  /\ creator = Deployer
  /\ blockTimestamp = ONE_DAY
  /\ admin = Constructor(creator).admin
  /\ isSystemActive = Constructor(creator).isSystemActive
  /\ students = Constructor(creator).students
  /\ matricToAddress = Constructor(creator).matricToAddress
  /\ attendanceRecords = Constructor(creator).attendanceRecords
  /\ attendanceCount = Constructor(creator).attendanceCount
  /\ registeredUsers = Constructor(creator).registeredUsers
  /\ count = Constructor(creator).count
  /\ events = Constructor(creator).events
  /\ ClientInit

\* a later block is mined
AdvanceTime ==
  /\ \E t \in Times : t > blockTimestamp /\ blockTimestamp' = t
  /\ UNCHANGED <<creator, storage, events, client>>

\* a transaction: the storage and the log become what the function left,
\* which for a revert is what they were; the revert reason goes to the sender
RegisterUser(sender, user, matricNumber, name) ==
  /\ Len(events) < MaxEvents
  /\ Apply(registerUser(Ledger, sender, user, matricNumber, name,
                        blockTimestamp))
  /\ UNCHANGED <<creator, blockTimestamp, client>>

MarkAttendance(sender) ==
  /\ Len(events) < MaxEvents
  /\ Apply(markAttendance(Ledger, sender, blockTimestamp))
  /\ UNCHANGED <<creator, blockTimestamp, client>>

ToggleSystem(sender) ==
  /\ Len(events) < MaxEvents
  /\ Apply(toggleSystem(Ledger, sender))
  /\ UNCHANGED <<creator, blockTimestamp, client>>

DoRegisterUser ==
  \E sender \in Callers, user \in Addr, m \in MatricNumbers, n \in Names :
    RegisterUser(sender, user, m, n)
DoMarkAttendance == \E sender \in Callers : MarkAttendance(sender)
DoToggleSystem == \E sender \in Callers : ToggleSystem(sender)

Next ==
  \/ AdvanceTime
  \/ DoRegisterUser
  \/ DoMarkAttendance
  \/ DoToggleSystem

Spec == Init /\ [][Next]_vars

\* ------------------------------------------------------ client transitions
\* initializeService(provider, signer?) by the host application
InitializeService(signer) ==
  /\ attendanceService' = AttendanceService(signer)
  /\ UNCHANGED <<creator, storage, events, blockTimestamp, loading, error,
                 pc, request, submissions, thrown, web3>>

SetSigner(signer) ==
  /\ attendanceService # NoService
  /\ attendanceService' = setSigner(attendanceService, signer)
  /\ UNCHANGED <<creator, storage, events, blockTimestamp, loading, error,
                 pc, request, submissions, thrown, web3>>

\* mutant: a rejected ledger call is sent again
WriteRejectedRetry(hook, err) ==
  IF pc = "awaiting" /\ submissions < 2
  THEN /\ submissions' = submissions + 1
       /\ error' = (IF hook THEN err ELSE error)
       /\ UNCHANGED <<pc, request, loading, thrown>>
  ELSE /\ error' = (IF hook THEN err ELSE error)
       /\ thrown' = err
       /\ loading' = (IF hook THEN FALSE ELSE loading)
       /\ pc' = "idle"
       /\ request' = NoRequest
       /\ UNCHANGED submissions

\* catch and finally of useContractWrite.write: setError(error), throw
\* error, setLoading(false); without the hook the error is just thrown
WriteRejected(hook, err) ==
  /\ error' = (IF hook THEN err ELSE error)
  /\ thrown' = err
  /\ loading' = (IF hook THEN FALSE ELSE loading)
  /\ pc' = "idle"
  /\ request' = NoRequest
  /\ UNCHANGED submissions

\* return result, then finally: setLoading(false)
WriteResolved(hook) ==
  /\ error' = (IF hook THEN NoError ELSE error)
  /\ thrown' = NoError
  /\ loading' = (IF hook THEN FALSE ELSE loading)
  /\ pc' = "idle"
  /\ request' = NoRequest
  /\ UNCHANGED submissions

\* the user triggers a write: setLoading(true), setError(null), then the
\* service method runs up to its await. Either it throws before sending,
\* or the transaction is submitted and the write awaits it.
StartWrite(req) ==
  /\ pc = "idle"
  /\ Len(events) < MaxClientEvents
  /\ UNCHANGED <<creator, storage, events, blockTimestamp,
                 attendanceService, web3>>
  /\ IF ServiceWriteCheck(attendanceService) # Ok
     THEN /\ submissions' = 0
          /\ error' = (IF req.hook
                         THEN ServiceWriteCheck(attendanceService)
                         ELSE error)
          /\ thrown' = ServiceWriteCheck(attendanceService)
          /\ loading' = (IF req.hook THEN FALSE ELSE loading)
          /\ UNCHANGED <<pc, request>>
     ELSE /\ submissions' = 1
          /\ request' = [req |-> req, from |-> attendanceService.runner]
          /\ pc' = "awaiting"
          /\ loading' = (IF req.hook THEN TRUE ELSE loading)
          /\ error' = (IF req.hook THEN NoError ELSE error)
          /\ thrown' = NoError

\* the ledger applies the submitted transaction and the awaited promise
\* settles: with the receipt, or with the ledger's rejection
SettleWrite ==
  /\ pc = "awaiting"
  /\ Apply(Pending(request.req, request.from))
  /\ UNCHANGED <<creator, blockTimestamp, attendanceService, web3>>
  /\ IF Pending(request.req, request.from).err = Ok
     THEN WriteResolved(request.req.hook)
     ELSE WriteRejected(request.req.hook,
                        Pending(request.req, request.from).err)

\* useWeb3.connectWallet up to its await of service.getAdmin(), for a user
\* who approves the account request; the page's button is disabled once an
\* address is set. Without window.ethereum it throws at once. Otherwise
\* provider, signer and address are set, and getAttendanceService() is
\* called in the same turn: without a service it throws, the catch stores
\* the error and rethrows, and isAdmin keeps its value.
ConnectWallet(wallet) ==
  /\ web3Address = NoAddress
  /\ ~connecting
  /\ IF wallet = NoAddress
     THEN /\ web3Error' = ErrNoMetaMask
          /\ UNCHANGED <<web3Address, isAdmin, connecting>>
     ELSE /\ web3Address' = wallet
          /\ IF attendanceService = NoService
             THEN /\ web3Error' = ErrNotInitialized
                  /\ UNCHANGED <<isAdmin, connecting>>
             ELSE /\ connecting' = TRUE
                  /\ UNCHANGED <<isAdmin, web3Error>>
  /\ UNCHANGED <<creator, storage, events, blockTimestamp, attendanceService,
                 loading, error, pc, request, submissions, thrown>>

\* service.getAdmin() resolves with the ledger's admin:
\* setIsAdmin(admin.toLowerCase() === userAddress.toLowerCase()); the two
\* are the same address exactly when they agree up to letter case
ConnectSettle ==
  /\ connecting
  /\ isAdmin' = (admin = web3Address)
  /\ connecting' = FALSE
  /\ UNCHANGED <<creator, storage, events, blockTimestamp, attendanceService,
                 loading, error, pc, request, submissions, thrown,
                 web3Address, web3Error>>

DoConnectWallet == \E wallet \in 0..NumAddr : ConnectWallet(wallet)
DoInitializeService == \E signer \in 0..NumAddr : InitializeService(signer)
DoSetSigner == \E signer \in Callers : SetSigner(signer)
DoStartWrite == \E req \in Requests : StartWrite(req)

\* the client's steps, within one block time of the ledger
ClientNext ==
  \/ DoInitializeService
  \/ DoSetSigner
  \/ DoStartWrite
  \/ SettleWrite

ClientSpec == Init /\ [][ClientNext]_vars

\* the client with its wallet connection
Web3Next ==
  \/ ClientNext
  \/ DoConnectWallet
  \/ ConnectSettle

Web3Spec == Init /\ [][Web3Next]_vars

TypeOK ==
  /\ admin \in Addr
  /\ isSystemActive \in BOOLEAN
  /\ count \in Nat
  /\ Len(events) <= MaxEvents
  /\ blockTimestamp \in Times

\* ------------------------------------------------- error kinds of the spec
Unauthorized == {ErrOnlyAdmin}
InvalidArgument == {ErrInvalidAddress, ErrInvalidMatric, ErrInvalidName}
AlreadyExists == {ErrUserRegistered, ErrMatricRegistered}
NotRegistered == {ErrNotRegistered}
AlreadyMarked == {ErrAlreadyMarked}
SystemInactive == {ErrNotActive}
NotFound == {ErrNotFound}

\* helpers of the properties
Registered == {a \in Addr : students[a].isRegistered}
MarkedDays(a) == {d \in Days : attendanceRecords[a][d].isPresent}
EventsOf(type) == {i \in 1..Len(events) : events[i].type = type}
TodayNow == Today(blockTimestamp)
NonEmptyMatrics == MatricNumbers \ {EmptyString}
NonEmptyNames == Names \ {EmptyString}
\* c marked attendance successfully on the day of the current block
MarkedToday(c) ==
  \E i \in EventsOf("AttendanceMarked") :
    events[i].user = c /\ events[i].date = TodayNow
\* the outcome of a transaction sent in the current state
TryRegister(c, u, m, n) == registerUser(Ledger, c, u, m, n, blockTimestamp)
TryMark(c) == markAttendance(Ledger, c, blockTimestamp)
TryToggle(c) == toggleSystem(Ledger, c)
\* the outcome is a revert of one of the kinds, with nothing changed
Refused(r, kinds) == r.err \in kinds /\ r.st = Ledger
\* the outcome is a success, or nothing changed
Atomic(r) == r.err = Ok \/ r.st = Ledger

\* ------------------------------------------------------------------- C1
\* at most one attendance mark is ever logged per (identity, dayIndex)
C1_OneMarkPerDay ==
  \A i, j \in EventsOf("AttendanceMarked") :
    (events[i].user = events[j].user /\ events[i].date = events[j].date)
      => i = j

\* C1 as stated: after a successful mark, a markAttendance of the same
\* identity on the same dayIndex fails with AlreadyMarked and leaves the
\* identity's count, whatever happened in between
C1_Original ==
  /\ C1_OneMarkPerDay
  /\ \A c \in Callers : MarkedToday(c) =>
       /\ TryMark(c).err \in AlreadyMarked
       /\ TryMark(c).st.attendanceCount[c] = attendanceCount[c]

\* C1 (amended): once per day. At most one mark is logged per (identity,
\* dayIndex), and after a successful mark a markAttendance of the same
\* identity on the same dayIndex fails, with AlreadyMarked while the system
\* is active and with SystemInactive while it is not, and leaves the count.
C1_OncePerDay ==
  /\ C1_OneMarkPerDay
  /\ \A c \in Callers : MarkedToday(c) =>
       /\ TryMark(c).err \in
            (IF isSystemActive THEN AlreadyMarked ELSE SystemInactive)
       /\ TryMark(c).st.attendanceCount[c] = attendanceCount[c]

\* a student marked earlier today, time has moved on within the day, and a
\* second mark is refused with the count still 1
C1_Witness ==
  \E c \in Callers :
    /\ MarkedToday(c)
    /\ attendanceRecords[c][TodayNow].timestamp < blockTimestamp
    /\ TryMark(c).err = ErrAlreadyMarked
    /\ attendanceCount[c] = 1

\* ------------------------------------------------------------------- C2
\* C2: the attendance counter of every identity equals the number of
\* day-indices for which it has an attendance record
C2_CountIsRecords ==
  \A a \in Addr : getAttendanceCount(a) = Cardinality(MarkedDays(a))

C2_Witness ==
  \E a \in Addr : getAttendanceCount(a) = 2 /\ Cardinality(MarkedDays(a)) = 2

\* ------------------------------------------------------------------- C3
\* C3: the registration counter equals the length of the registered list,
\* and both equal the number of student records ever created
C3_CountIsListLength ==
  /\ count = Len(getRegisteredUsers)
  /\ count = Cardinality(Registered)
  /\ count = Cardinality(EventsOf("UserRegistered"))

C3_Witness == count = 2 /\ Len(getRegisteredUsers) = 2

\* ------------------------------------------------------------------- C4
\* C4: registerUser and toggleSystem sent by anyone but the admin revert
\* with Unauthorized and change nothing of the storage or the log
C4_OnlyAdmin ==
  \A c \in Callers : c # admin =>
    /\ Refused(TryToggle(c), Unauthorized)
    /\ \A u \in Addr, m \in MatricNumbers, n \in Names :
         Refused(TryRegister(c, u, m, n), Unauthorized)

\* a registered student who is not the admin is refused both functions
C4_Witness ==
  \E c \in Registered, u \in Callers \ Registered :
    /\ c # admin
    /\ TryToggle(c).err = ErrOnlyAdmin
    /\ TryRegister(c, u, <<2>>, <<1>>).err = ErrOnlyAdmin
    /\ TryRegister(admin, u, <<2>>, <<1>>).err = Ok

\* ------------------------------------------------------------------- C5
\* C5: while the active flag is false markAttendance reverts with
\* SystemInactive for every sender and writes nothing; while it is true
\* (again), a registered sender with no record for today marks successfully
C5_ActiveGate ==
  \A c \in Callers :
    /\ ~isSystemActive => Refused(TryMark(c), SystemInactive)
    /\ (/\ isSystemActive
        /\ students[c].isRegistered
        /\ ~attendanceRecords[c][TodayNow].isPresent)
         => /\ TryMark(c).err = Ok
            /\ TryMark(c).st.attendanceRecords[c][TodayNow].isPresent

\* the system was switched off and on again after a registration, and the
\* registered student's mark now goes through
C5_Witness ==
  \E i, j \in 1..Len(events), c \in Registered :
    /\ i < j
    /\ events[i].type = "SystemStateChanged" /\ ~events[i].isActive
    /\ events[j].type = "SystemStateChanged" /\ events[j].isActive
    /\ isSystemActive
    /\ TryMark(c).err = Ok
    /\ TryMark(c).st.attendanceCount[c] = 1

\* ------------------------------------------------------------------- C6
\* C6: every identity has at most one student record and no two registered
\* identities share a matric number; a bound matric number maps to the one
\* identity whose record carries it
C6_Unique ==
  /\ \A i, j \in 1..Len(registeredUsers) :
       registeredUsers[i] = registeredUsers[j] => i = j
  /\ \A i, j \in EventsOf("UserRegistered") :
       (events[i].user = events[j].user
        \/ events[i].matricNumber = events[j].matricNumber) => i = j
  /\ \A a, b \in Registered :
       students[a].matricNumber = students[b].matricNumber => a = b
  /\ \A m \in MatricNumbers : matricToAddress[m] # NullAddress =>
       {a \in Registered : students[a].matricNumber = m}
         = {matricToAddress[m]}

C6_Witness ==
  \E a, b \in Registered :
    a # b /\ students[a].matricNumber # students[b].matricNumber

\* ------------------------------------------------------------------- C7
\* C7: an admin registerUser with valid arguments reverts with AlreadyExists
\* when the identity is registered and when the matric number is bound, and
\* changes nothing
C7_AlreadyExists ==
  \A u \in Callers, m \in NonEmptyMatrics, n \in NonEmptyNames :
    (students[u].isRegistered \/ matricToAddress[m] # NullAddress)
      => Refused(TryRegister(admin, u, m, n), AlreadyExists)

\* one student is registered: registering it again with a fresh matric
\* number, and a fresh identity with its matric number, are both refused
C7_Witness ==
  \E u \in Registered, v \in Callers \ Registered, m \in NonEmptyMatrics :
    /\ matricToAddress[m] = NullAddress
    /\ TryRegister(admin, u, m, <<1>>).err = ErrUserRegistered
    /\ TryRegister(admin, v, students[u].matricNumber, <<1>>).err
         = ErrMatricRegistered

\* ------------------------------------------------------------------- C8
\* C8: an admin registerUser reverts with InvalidArgument when the identity
\* is the null address, the matric number is empty or the name is empty,
\* and creates nothing
C8_InvalidArgument ==
  \A u \in Addr, m \in MatricNumbers, n \in Names :
    (u = NullAddress \/ m = EmptyString \/ n = EmptyString)
      => Refused(TryRegister(admin, u, m, n), InvalidArgument)

\* each of the three arguments alone is refused where the call with all
\* three valid would succeed, after an earlier registration
C8_Witness ==
  \E u \in Callers, m \in NonEmptyMatrics :
    /\ count = 1
    /\ TryRegister(admin, u, m, <<1>>).err = Ok
    /\ TryRegister(admin, NullAddress, m, <<1>>).err = ErrInvalidAddress
    /\ TryRegister(admin, u, EmptyString, <<1>>).err = ErrInvalidMatric
    /\ TryRegister(admin, u, m, EmptyString).err = ErrInvalidName

\* ------------------------------------------------------------------- C9
\* C9: a transaction that fails, whatever the function and the error,
\* leaves the storage as it was and logs no event
C9_AllOrNothing ==
  \A c \in Callers :
    /\ Atomic(TryToggle(c))
    /\ Atomic(TryMark(c))
    /\ \A u \in Addr, m \in MatricNumbers, n \in Names :
         Atomic(TryRegister(c, u, m, n))

\* a state with history in which calls fail with each kind of error
C9_Witness ==
  /\ Len(events) >= 3
  /\ \E c \in Callers : TryToggle(c).err = ErrOnlyAdmin
  /\ \E c \in Callers : TryMark(c).err = ErrNotRegistered
  /\ \E c \in Callers : TryMark(c).err = ErrAlreadyMarked
  /\ \E u \in Addr, m \in MatricNumbers, n \in Names :
       TryRegister(admin, u, m, n).err = ErrMatricRegistered
  /\ \E m \in MatricNumbers : getStudentByMatric(m).err = ErrNotFound

\* ------------------------------------------------------------------ C10
\* C10: the admin is the sender of the constructor in every reachable state
C10_OwnerFixed == admin = creator

\* the log is full, and an identity other than the creator is registered
C10_Witness ==
  /\ Len(events) = MaxEvents
  /\ \E c \in Registered : c # creator
  /\ admin = creator

\* ------------------------------------------------------------------ C11
\* C11: in the initial state (nothing has been logged yet) the admin is the
\* creating caller, the system is active, the registration counter is 0, the
\* registered list is empty, and no identity has a student record, a matric
\* binding, an attendance record or a non-zero attendance counter
C11_InitialState ==
  events = << >> =>
    /\ admin = creator
    /\ isSystemActive
    /\ count = 0
    /\ getRegisteredUsers = << >>
    /\ \A a \in Addr :
         /\ getStudentByAddress(a) = NoStudent
         /\ getAttendanceCount(a) = 0
         /\ \A d \in Days :
              /\ ~verifyAttendance(a, d)
              /\ attendanceRecords[a][d] = NoRecord
    /\ \A m \in MatricNumbers :
         /\ matricToAddress[m] = NullAddress
         /\ getStudentAddressByMatric(m).err = ErrNotFound

\* the contract as deployed, before any block after the first: the creator
\* is the admin and cannot mark, not being a student
C11_Witness ==
  /\ events = << >>
  /\ blockTimestamp = ONE_DAY
  /\ admin = Deployer
  /\ isSystemActive
  /\ TryMark(creator).err = ErrNotRegistered

\* ------------------------------------------------------------------ C12
\* C12: a successful registerUser(user, matricNumber, name) in a block of
\* time t leaves getStudentByAddress(user) = (matricNumber, name, true, t),
\* getStudentAddressByMatric(matricNumber) = user, user as the last element
\* of getRegisteredUsers, and the registration counter one more than before.
\* The successful registrations are the steps that log UserRegistered, and
\* the log entry carries the arguments.
C12_RegisterEffect ==
  [][(/\ Len(events') = Len(events) + 1
      /\ events'[Len(events')].type = "UserRegistered") =>
       \A u \in Addr, m \in MatricNumbers, n \in Names :
         (/\ u = events'[Len(events')].user
          /\ m = events'[Len(events')].matricNumber
          /\ n = events'[Len(events')].name) =>
           /\ TryRegister(admin, u, m, n).err = Ok
           /\ RegisterUser(admin, u, m, n)
           /\ getStudentByAddress(u)' =
                [matricNumber |-> m, name |-> n, isRegistered |-> TRUE,
                 registrationDate |-> blockTimestamp]
           /\ getStudentAddressByMatric(m)' = [err |-> Ok, ret |-> u]
           /\ Len(getRegisteredUsers') = Len(getRegisteredUsers) + 1
           /\ getRegisteredUsers'[Len(getRegisteredUsers')] = u
           /\ count' = count + 1]_vars

\* the second registration has just been made, in the middle of a day
C12_Witness ==
  \E u \in Callers :
    /\ Len(events) = 2
    /\ events[2].type = "UserRegistered" /\ events[2].user = u
    /\ blockTimestamp % ONE_DAY # 0
    /\ getStudentByAddress(u) =
         [matricNumber |-> events[2].matricNumber, name |-> events[2].name,
          isRegistered |-> TRUE, registrationDate |-> blockTimestamp]
    /\ getStudentAddressByMatric(events[2].matricNumber).ret = u
    /\ getRegisteredUsers[2] = u
    /\ count = 2

\* ------------------------------------------------------------------ C13
\* C13: a successful markAttendance of sender in a block of time now, with
\* d = now / ONE_DAY rounded down, leaves verifyAttendance(sender, d) true,
\* getAttendanceRecord(sender, d) = (now, true), the stored record carrying
\* the student's matric number, and the sender's count one more than before
C13_MarkEffect ==
  [][\A c \in Callers :
       (TryMark(c).err = Ok /\ MarkAttendance(c)) =>
         /\ verifyAttendance(c, Today(blockTimestamp))'
         /\ getAttendanceRecord(c, Today(blockTimestamp))' =
              [timestamp |-> blockTimestamp, isPresent |-> TRUE]
         /\ attendanceRecords'[c][Today(blockTimestamp)].matricNumber
              = students[c].matricNumber
         /\ getAttendanceCount(c)' = getAttendanceCount(c) + 1]_vars

\* a student's mark has just been made, in the middle of a day
C13_Witness ==
  \E c \in Callers :
    /\ Len(events) > 0
    /\ events[Len(events)].type = "AttendanceMarked"
    /\ events[Len(events)].user = c
    /\ events[Len(events)].timestamp = blockTimestamp
    /\ blockTimestamp % ONE_DAY # 0
    /\ getAttendanceRecord(c, TodayNow) =
         [timestamp |-> blockTimestamp, isPresent |-> TRUE]
    /\ attendanceRecords[c][TodayNow].matricNumber = students[c].matricNumber
    /\ getAttendanceCount(c) = 1

\* ------------------------------------------------------------------ C14
\* C14: student records are append-only and registration is one-way: a step
\* from a state in which an identity is registered leaves its record as it
\* was (registered, same matric number, name and registration date), and
\* its matric number resolves to it before and after the step
C14_StudentsAppendOnly ==
  [][\A a \in Addr : students[a].isRegistered =>
       /\ students'[a] = students[a]
       /\ getStudentByAddress(a)' = getStudentByAddress(a)
       /\ getStudentAddressByMatric(students[a].matricNumber)
            = [err |-> Ok, ret |-> a]
       /\ getStudentAddressByMatric(students[a].matricNumber)'
            = [err |-> Ok, ret |-> a]]_vars

\* the first transaction registered a student in an earlier block; a toggle
\* and a second registration followed, and the record is as it was written
C14_Witness ==
  \E a \in Callers :
    /\ Len(events) = 3
    /\ events[1].type = "UserRegistered" /\ events[1].user = a
    /\ \E i \in 2..3 : events[i].type = "SystemStateChanged"
    /\ \E i \in 2..3 : events[i].type = "UserRegistered"
    /\ students[a].registrationDate < blockTimestamp
    /\ getStudentByAddress(a) =
         [matricNumber |-> events[1].matricNumber, name |-> events[1].name,
          isRegistered |-> TRUE, registrationDate |-> ONE_DAY]
    /\ getStudentAddressByMatric(events[1].matricNumber).ret = a

\* ------------------------------------------------------------------ C15
\* C15: attendance records are immutable: a step from a state in which a
\* record exists for (identity, dayIndex) leaves that record as it was,
\* present and with the same timestamp and matric number
C15_RecordsImmutable ==
  [][\A a \in Addr, d \in Days : attendanceRecords[a][d].isPresent =>
       /\ attendanceRecords'[a][d] = attendanceRecords[a][d]
       /\ verifyAttendance(a, d)'
       /\ getAttendanceRecord(a, d)' = getAttendanceRecord(a, d)]_vars

\* a student marked on day 1 and again on day 2: the record of day 1 still
\* has the time and matric number logged when it was made
C15_Witness ==
  \E a \in Callers, i, j \in EventsOf("AttendanceMarked") :
    /\ events[i].user = a /\ events[j].user = a
    /\ events[i].date < events[j].date
    /\ attendanceRecords[a][events[i].date] =
         [timestamp |-> events[i].timestamp, isPresent |-> TRUE,
          matricNumber |-> events[i].matricNumber]
    /\ events[i].timestamp < events[j].timestamp

\* ------------------------------------------------------------------ C16
\* C16: while the system is active, markAttendance of a registered sender
\* succeeds for every block time whose day has no record of the sender,
\* whatever records it has for other days, later ones included; from count
\* 0, marks on two distinct days, in either order, leave count 2
C16_DaysIndependent ==
  \A c \in Callers : (isSystemActive /\ students[c].isRegistered) =>
    /\ \A t \in Times : ~attendanceRecords[c][Today(t)].isPresent =>
         /\ markAttendance(Ledger, c, t).err = Ok
         /\ markAttendance(Ledger, c, t).st.attendanceCount[c]
              = attendanceCount[c] + 1
    /\ \A t1, t2 \in Times :
         (attendanceCount[c] = 0 /\ Today(t1) # Today(t2)) =>
           LET r1 == markAttendance(Ledger, c, t1)
               r2 == markAttendance(r1.st, c, t2)
           IN /\ r1.err = Ok
              /\ r2.err = Ok
              /\ r2.st.attendanceCount[c] = 2

\* a student has a record for day 2 and none for day 1: a mark with a block
\* time of day 1 succeeds, and one with a time of day 2 does not
C16_Witness ==
  \E c \in Registered :
    /\ isSystemActive
    /\ attendanceRecords[c][2].isPresent
    /\ ~attendanceRecords[c][1].isPresent
    /\ markAttendance(Ledger, c, ONE_DAY).err = Ok
    /\ markAttendance(Ledger, c, ONE_DAY).st.attendanceCount[c] = 2
    /\ markAttendance(Ledger, c, 2 * ONE_DAY).err = ErrAlreadyMarked

\* ------------------------------------------------------------------ C17
\* the number of successful toggleSystem calls logged after position i
TogglesAfter(i) ==
  Cardinality({k \in EventsOf("SystemStateChanged") : k > i})
\* the active flag as it was when the log had i entries
ActiveAt(i) ==
  LET before == {k \in EventsOf("SystemStateChanged") : k <= i}
  IN IF before = {} THEN TRUE
     ELSE events[CHOOSE k \in before : \A j \in before : j <= k].isActive

\* C17: from any state of the history, after n successful toggleSystem calls
\* of the admin, with any other calls in between, the active flag is what
\* it was when n is even and its negation when n is odd; and each step
\* changes the flag exactly when it is a successful toggleSystem
C17_ToggleParity ==
  /\ [](\A i \in 0..Len(events) :
          isSystemActive = (ActiveAt(i) <=> (TogglesAfter(i) % 2 = 0)))
  /\ [][(isSystemActive' # isSystemActive) <=>
          (\E c \in Callers : TryToggle(c).err = Ok /\ ToggleSystem(c))]_vars

\* two toggles with a registration in between: the flag is back to true
C17_Witness ==
  /\ Len(events) = 3
  /\ events[1].type = "SystemStateChanged" /\ ~events[1].isActive
  /\ events[2].type = "UserRegistered"
  /\ events[3].type = "SystemStateChanged"
  /\ TogglesAfter(0) = 2 /\ TogglesAfter(1) = 1
  /\ ~ActiveAt(1) /\ ~ActiveAt(2)
  /\ isSystemActive

\* ------------------------------------------------------------------ C18
\* the identities and matric numbers of the registrations made so far
EverRegistered == {events[i].user : i \in EventsOf("UserRegistered")}
EverBound == {events[i].matricNumber : i \in EventsOf("UserRegistered")}

\* C18: for every identity that was never registered, getAttendanceCount
\* returns 0 and getStudentByAddress returns the all-empty tuple (the views
\* have no revert)
C18_NeverRegistered ==
  \A a \in Addr \ EverRegistered :
    /\ getAttendanceCount(a) = 0
    /\ getStudentByAddress(a) =
         [matricNumber |-> EmptyString, name |-> EmptyString,
          isRegistered |-> FALSE, registrationDate |-> 0]

\* after a registration and a mark of another identity, a caller that was
\* never registered tries to mark and still reads as empty
C18_Witness ==
  \E a \in Callers \ EverRegistered, b \in EverRegistered :
    /\ getAttendanceCount(b) = 1
    /\ TryMark(a).err = ErrNotRegistered
    /\ getAttendanceCount(a) = 0
    /\ ~getStudentByAddress(a).isRegistered

\* ------------------------------------------------------------------ C19
\* C19: getStudentByMatric(m) and getStudentAddressByMatric(m) revert with
\* NotFound exactly when no registration bound m; when one did, both return
\* the identity that was registered with m
C19_NotFoundIffUnbound ==
  \A m \in MatricNumbers :
    /\ m \notin EverBound =>
         /\ getStudentByMatric(m).err \in NotFound
         /\ getStudentAddressByMatric(m).err \in NotFound
    /\ \A i \in EventsOf("UserRegistered") : events[i].matricNumber = m =>
         /\ getStudentByMatric(m).err = Ok
         /\ getStudentByMatric(m).ret.studentAddress = events[i].user
         /\ getStudentAddressByMatric(m) = [err |-> Ok, ret |-> events[i].user]

\* one matric number is bound and resolves, another one is not and both
\* lookups of it revert, as do those of the empty matric number
C19_Witness ==
  \E m1, m2 \in NonEmptyMatrics :
    /\ m1 \in EverBound /\ m2 \notin EverBound
    /\ getStudentAddressByMatric(m1).err = Ok
    /\ getStudentByMatric(m1).ret.studentAddress
         = getStudentAddressByMatric(m1).ret
    /\ getStudentByMatric(m2).err = ErrNotFound
    /\ getStudentAddressByMatric(m2).err = ErrNotFound
    /\ getStudentByMatric(EmptyString).err = ErrNotFound

\* ------------------------------------------------------------------ C20
\* C20: for every bound matric number m, getStudentByMatric(m) gives the
\* tuple (matricNumber, name, isRegistered, registrationDate) that
\* getStudentByAddress gives for the resolved identity, plus that identity.
\* The view returns the identity, name, isRegistered and registrationDate;
\* the service completes the tuple with the matric number asked for.
C20_SameTuple ==
  \A m \in MatricNumbers : getStudentAddressByMatric(m).err = Ok =>
    LET a == getStudentAddressByMatric(m).ret
        byAddress == AttendanceService_getStudentByAddress(a).ret
        byMatric == AttendanceService_getStudentByMatric(m)
    IN /\ getStudentByMatric(m).err = Ok
       /\ getStudentByMatric(m).ret =
            [studentAddress |-> a,
             name |-> getStudentByAddress(a).name,
             isRegistered |-> getStudentByAddress(a).isRegistered,
             registrationDate |-> getStudentByAddress(a).registrationDate]
       /\ byMatric.err = Ok
       /\ byMatric.ret =
            [address |-> a,
             matricNumber |-> byAddress.matricNumber,
             name |-> byAddress.name,
             isRegistered |-> byAddress.isRegistered,
             registrationDate |-> byAddress.registrationDate]

\* two students registered in different blocks are looked up by their
\* matric numbers, with different results
C20_Witness ==
  \E m1, m2 \in NonEmptyMatrics :
    /\ AttendanceService_getStudentByMatric(m1).err = Ok
    /\ AttendanceService_getStudentByMatric(m2).err = Ok
    /\ AttendanceService_getStudentByMatric(m1).ret.address
         # AttendanceService_getStudentByMatric(m2).ret.address
    /\ AttendanceService_getStudentByMatric(m1).ret.registrationDate
         < AttendanceService_getStudentByMatric(m2).ret.registrationDate
    /\ AttendanceService_getStudentByMatric(m1).ret.matricNumber
         = students[getStudentAddressByMatric(m1).ret].matricNumber

\* ------------------------------------------------------------------ C21
\* the users of the registrations logged so far, in the order of the log
RECURSIVE RegisteredInOrder(_)
RegisteredInOrder(i) ==
  IF i = 0 THEN << >>
  ELSE IF events[i].type = "UserRegistered"
    THEN Append(RegisteredInOrder(i - 1), events[i].user)
  ELSE RegisteredInOrder(i - 1)

\* C21: getRegisteredUsers is append-only and keeps insertion order: the
\* list before a step is a prefix of the list after it, and the list is the
\* users in the order in which their registrations succeeded
C21_ListAppendOnly ==
  /\ [](getRegisteredUsers = RegisteredInOrder(Len(events)))
  /\ [][/\ Len(registeredUsers') >= Len(registeredUsers)
         /\ SubSeq(registeredUsers', 1, Len(registeredUsers))
              = registeredUsers]_vars

\* the higher address was registered first, a toggle came between the two
\* registrations, and the list has the two in that order
C21_Witness ==
  /\ Len(events) = 3
  /\ events[1].type = "UserRegistered"
  /\ events[2].type = "SystemStateChanged"
  /\ events[3].type = "UserRegistered"
  /\ getRegisteredUsers = <<events[1].user, events[3].user>>
  /\ getRegisteredUsers[1] > getRegisteredUsers[2]

\* ------------------------------------------------------------------ C22
\* C22: the event log is the audit trail of the successful transactions. A
\* step that leaves the log leaves the storage; any other step appends one
\* event, and that event is the UserRegistered(user, matricNumber, name) of
\* a successful registerUser, the AttendanceMarked(user, matricNumber,
\* now / ONE_DAY, now) of a successful markAttendance or the
\* SystemStateChanged(new flag) of a successful toggleSystem; and each
\* successful transaction appends its event
C22_AuditTrail ==
  [][/\ events' = events => UNCHANGED storage
     /\ events' # events =>
          /\ Len(events') = Len(events) + 1
          /\ SubSeq(events', 1, Len(events)) = events
          /\ \/ \E u \in Callers, m \in NonEmptyMatrics, n \in NonEmptyNames :
                  /\ events'[Len(events')] =
                       [type |-> "UserRegistered", user |-> u,
                        matricNumber |-> m, name |-> n]
                  /\ TryRegister(admin, u, m, n).err = Ok
                  /\ RegisterUser(admin, u, m, n)
             \/ \E c \in Callers :
                  /\ events'[Len(events')] =
                       [type |-> "AttendanceMarked", user |-> c,
                        matricNumber |-> students[c].matricNumber,
                        date |-> Today(blockTimestamp),
                        timestamp |-> blockTimestamp]
                  /\ TryMark(c).err = Ok
                  /\ MarkAttendance(c)
             \/ /\ events'[Len(events')] =
                      [type |-> "SystemStateChanged",
                       isActive |-> isSystemActive']
                /\ isSystemActive' = ~isSystemActive
                /\ TryToggle(admin).err = Ok
                /\ ToggleSystem(admin)]_vars

\* a registration, a mark in a later block and a deactivation are logged
\* in that order with their arguments
C22_Witness ==
  \E c \in Registered :
    /\ Len(events) = 3
    /\ events[1] = [type |-> "UserRegistered", user |-> c,
                    matricNumber |-> students[c].matricNumber,
                    name |-> students[c].name]
    /\ events[2].type = "AttendanceMarked" /\ events[2].user = c
    /\ events[2].timestamp > students[c].registrationDate
    /\ events[2].date = Today(events[2].timestamp)
    /\ events[3] = [type |-> "SystemStateChanged", isActive |-> FALSE]
    /\ ~isSystemActive

\* ------------------------------------------------------------------ C23
\* the outcomes of the ten read operations called by c, over all arguments
ReadOutcomes(c) ==
  {view(Ledger, c, Returns(verifyAttendance(a, d))) : a \in Addr, d \in Days}
  \cup {view(Ledger, c, Returns(getAttendanceCount(a))) : a \in Addr}
  \cup {view(Ledger, c, Returns(getAttendanceRecord(a, d))) :
          a \in Addr, d \in Days}
  \cup {view(Ledger, c, Returns(getStudentByAddress(a))) : a \in Addr}
  \cup {view(Ledger, c, getStudentByMatric(m)) : m \in MatricNumbers}
  \cup {view(Ledger, c, getStudentAddressByMatric(m)) : m \in MatricNumbers}
  \cup {view(Ledger, c, Returns(getRegisteredUsers)),
        view(Ledger, c, Returns(admin)),
        view(Ledger, c, Returns(isSystemActive)),
        view(Ledger, c, Returns(count))}

\* C23: the read operations can be called by any identity, the owner or
\* not, with the system active or not, and leave the storage and the event
\* log as they were, whether they return or revert (with NotFound only)
C23_ReadsPure ==
  \A c \in Addr : \A r \in ReadOutcomes(c) :
    /\ r.st = Ledger
    /\ r.err \in {Ok} \cup NotFound

\* the system is off after a registration and a mark; a caller who is
\* neither admin nor student reads a count of 1 and a failing lookup
C23_Witness ==
  \E c \in Callers \ (Registered \cup {admin}), b \in Registered :
    /\ ~isSystemActive
    /\ view(Ledger, c, Returns(getAttendanceCount(b)))
         = [err |-> Ok, st |-> Ledger]
    /\ getAttendanceCount(b) = 1
    /\ \E m \in NonEmptyMatrics :
         view(Ledger, c, getStudentByMatric(m))
           = [err |-> ErrNotFound, st |-> Ledger]

\* ------------------------------------------------------------------ C24
\* two admin registrations conflict when they share the user or the matric
\* number
RegistrationArgs ==
  {<<u, m, n>> : u \in Callers, m \in NonEmptyMatrics, n \in NonEmptyNames}
\* the registration x applied to state s at the current block time
RegisterIn(s, x) == registerUser(s, admin, x[1], x[2], x[3], blockTimestamp)

writePath == <<loading, error, pc, request, submissions, thrown>>
\* the reverts of the ledger's three transactions
LedgerRejections ==
  Unauthorized \cup InvalidArgument \cup AlreadyExists \cup NotRegistered
    \cup AlreadyMarked \cup SystemInactive

C26_MarkIff ==
  \A c \in Callers, t \in Times :
    LET r == markAttendance(Ledger, c, t)
    IN /\ r.err = Ok <=>
            (/\ isSystemActive
             /\ getStudentByAddress(c).isRegistered
             /\ ~verifyAttendance(c, Today(t)))
       /\ r.err # Ok =>
            r.err \in SystemInactive \cup NotRegistered \cup AlreadyMarked
       /\ r.err \in SystemInactive <=> ~isSystemActive
       /\ r.err \in NotRegistered <=>
            (isSystemActive /\ ~getStudentByAddress(c).isRegistered)
       /\ r.err \in AlreadyMarked <=>
            (/\ isSystemActive
             /\ getStudentByAddress(c).isRegistered
             /\ verifyAttendance(c, Today(t)))

\* the admin and another address are students; the admin has marked today
\* and is refused, the other has not and succeeds
C26_Witness ==
  \E c \in Registered \ {admin} :
    /\ admin \in Registered
    /\ isSystemActive
    /\ TryMark(admin).err = ErrAlreadyMarked
    /\ TryMark(c).err = Ok

\* ------------------------------------------------------------------ C27
\* C27: registerUser checks in a fixed order. A sender other than the admin
\* gets Unauthorized whatever the arguments; an admin call with the null
\* address, an empty matric number or an empty name gets InvalidArgument
\* even when the user or the matric number is registered; AlreadyExists is
\* given only to admin calls with valid arguments
C27_Precedence ==
  \A c \in Callers, u \in Addr, m \in MatricNumbers, n \in Names :
    LET e == TryRegister(c, u, m, n).err
        invalid == u = NullAddress \/ m = EmptyString \/ n = EmptyString
    IN /\ c # admin => e \in Unauthorized
       /\ (c = admin /\ invalid) => e \in InvalidArgument
       /\ e \in AlreadyExists => (c = admin /\ ~invalid)
       /\ e \in Unauthorized => c # admin

\* a student is registered: registering it again with its matric number is
\* Unauthorized from a stranger with or without a name, InvalidArgument
\* from the admin without a name, and AlreadyExists from the admin with one
C27_Witness ==
  \E u \in Registered, c \in Callers \ {admin} :
    /\ TryRegister(c, u, students[u].matricNumber, EmptyString).err
         = ErrOnlyAdmin
    /\ TryRegister(c, u, students[u].matricNumber, <<1>>).err = ErrOnlyAdmin
    /\ TryRegister(admin, u, students[u].matricNumber, EmptyString).err
         = ErrInvalidName
    /\ TryRegister(admin, u, EmptyString, <<1>>).err = ErrInvalidMatric
    /\ TryRegister(admin, u, students[u].matricNumber, <<1>>).err
         = ErrUserRegistered

\* ------------------------------------------------------------------ C28
\* C28: a successful markAttendance of sender changes the sender's record
\* for the day of the block and the sender's counter, by +1, and nothing
\* else of the storage: not the records and counters of others, the
\* sender's records of other days, the students, the matric bindings, the
\* registered list, the registration counter, the admin or the active flag;
\* and no step decreases an attendance counter
C28_MarkFrame ==
  /\ [](\A c \in Callers, t \in Times :
          LET r == markAttendance(Ledger, c, t)
          IN r.err = Ok =>
               /\ r.st.attendanceCount =
                    [attendanceCount EXCEPT ![c] = @ + 1]
               /\ \A a \in Addr, d \in Days :
                    (a # c \/ d # Today(t)) =>
                      r.st.attendanceRecords[a][d] = attendanceRecords[a][d]
               /\ r.st.attendanceRecords[c][Today(t)]
                    # attendanceRecords[c][Today(t)]
               /\ r.st.students = students
               /\ r.st.matricToAddress = matricToAddress
               /\ r.st.registeredUsers = registeredUsers
               /\ r.st.count = count
               /\ r.st.admin = admin
               /\ r.st.isSystemActive = isSystemActive)
  /\ [][\A a \in Addr : attendanceCount'[a] >= attendanceCount[a]]_vars

\* two students, one of them with a mark: the mark of the other succeeds
\* and leaves the first one's record and counter
C28_Witness ==
  \E b, c \in Registered :
    /\ b # c
    /\ attendanceCount[b] = 1
    /\ attendanceRecords[b][TodayNow].isPresent
    /\ TryMark(c).err = Ok
    /\ TryMark(c).st.attendanceCount = [attendanceCount EXCEPT ![c] = 1]
    /\ TryMark(c).st.attendanceRecords[b] = attendanceRecords[b]

\* ------------------------------------------------------------------ C29
\* the ledger with the active flag the other way
Flipped(s) == [s EXCEPT !.isSystemActive = ~s.isSystemActive]

\* C29: the active flag and registration are orthogonal. An admin
\* registerUser with valid fresh arguments succeeds whether the flag is
\* true or false, every registerUser has the same outcome with the flag
\* either way, and no registerUser changes the flag
C29_Orthogonal ==
  \A c \in Callers, u \in Addr, m \in MatricNumbers, n \in Names :
    LET r == TryRegister(c, u, m, n)
        f == registerUser(Flipped(Ledger), c, u, m, n, blockTimestamp)
    IN /\ (/\ c = admin /\ u # NullAddress
           /\ m # EmptyString /\ n # EmptyString
           /\ ~students[u].isRegistered
           /\ matricToAddress[m] = NullAddress) => r.err = Ok
       /\ f.err = r.err
       /\ f.st = Flipped(r.st)
       /\ r.st.isSystemActive = isSystemActive

\* the first student was registered while the system was off, the flag is
\* still off, and a second one can be registered now
C29_Witness ==
  \E u \in Callers \ Registered, m \in NonEmptyMatrics :
    /\ Len(events) = 2
    /\ events[1] = [type |-> "SystemStateChanged", isActive |-> FALSE]
    /\ events[2].type = "UserRegistered"
    /\ ~isSystemActive
    /\ TryRegister(admin, u, m, <<1>>).err = Ok
    /\ ~TryRegister(admin, u, m, <<1>>).st.isSystemActive
    /\ \A c \in Callers : TryMark(c).err = ErrNotActive

\* ------------------------------------------------------------------ C30
\* C30: a successful toggleSystem changes the active flag and appends its
\* event, and nothing else: students, matric bindings, the registered
\* list, the registration counter, attendance records and counters and the
\* admin are as before, so the attendance marked before a deactivation is
\* still reported while the system is off
C30_ToggleFrame ==
  /\ \A c \in Callers :
       LET r == TryToggle(c)
       IN r.err = Ok =>
            /\ r.st.isSystemActive = ~isSystemActive
            /\ r.st.students = students
            /\ r.st.matricToAddress = matricToAddress
            /\ r.st.registeredUsers = registeredUsers
            /\ r.st.count = count
            /\ r.st.attendanceRecords = attendanceRecords
            /\ r.st.attendanceCount = attendanceCount
            /\ r.st.admin = admin
            /\ Len(r.st.events) = Len(events) + 1
  /\ \A i \in EventsOf("AttendanceMarked") :
       /\ verifyAttendance(events[i].user, events[i].date)
       /\ getAttendanceRecord(events[i].user, events[i].date)
            = [timestamp |-> events[i].timestamp, isPresent |-> TRUE]
       /\ getAttendanceCount(events[i].user) >= 1

\* a student marked, then the admin switched the system off: the mark is
\* still reported
C30_Witness ==
  \E c \in Registered :
    /\ Len(events) = 3
    /\ events[2].type = "AttendanceMarked" /\ events[2].user = c
    /\ events[3] = [type |-> "SystemStateChanged", isActive |-> FALSE]
    /\ ~isSystemActive
    /\ verifyAttendance(c, events[2].date)
    /\ getAttendanceCount(c) = 1
    /\ TryToggle(admin).err = Ok

\* ------------------------------------------------------------------ C31
\* the matric numbers bound to an address
BoundMatrics == {m \in MatricNumbers : matricToAddress[m] # NullAddress}

\* C31: the matric binding and the student records are inverse to each
\* other: the matric number of every registered identity resolves to it,
\* every bound matric number resolves to a registered identity whose record
\* carries it, and there are as many bound matric numbers as the
\* registration counter says
C31_MutuallyInverse ==
  /\ \A i \in Registered :
       getStudentAddressByMatric(students[i].matricNumber)
         = [err |-> Ok, ret |-> i]
  /\ \A m \in BoundMatrics :
       /\ getStudentByAddress(matricToAddress[m]).isRegistered
       /\ getStudentByAddress(matricToAddress[m]).matricNumber = m
       /\ getStudentByMatric(m).ret.studentAddress = matricToAddress[m]
  /\ Cardinality(BoundMatrics) = count

\* two students with the two matric numbers the other way round than their
\* addresses
C31_Witness ==
  /\ count = 2
  /\ Cardinality(BoundMatrics) = 2
  /\ \E a, b \in Registered :
       /\ a < b
       /\ students[a].matricNumber = <<2>>
       /\ students[b].matricNumber = <<1>>
       /\ getStudentAddressByMatric(<<2>>).ret = a

\* ------------------------------------------------------------------ C32
\* C32: the registered list has no duplicates and its elements are exactly
\* the identities whose student record has isRegistered true
C32_ListIsRegistered ==
  /\ \A i, j \in 1..Len(getRegisteredUsers) :
       getRegisteredUsers[i] = getRegisteredUsers[j] => i = j
  /\ {getRegisteredUsers[i] : i \in 1..Len(getRegisteredUsers)}
       = {a \in Addr : getStudentByAddress(a).isRegistered}

\* a student other than the admin is the only one registered
C32_Witness ==
  \E a \in Callers \ {admin} :
    /\ getRegisteredUsers = <<a>>
    /\ Registered = {a}
    /\ Len(events) = 3

\* ------------------------------------------------------------------ C33
\* C33: attendance exists for registered identities only: an identity with
\* an attendance record for some day or with a non-zero attendance counter
\* has a student record
C33_AttendanceOnlyRegistered ==
  \A a \in Addr :
    ((\E d \in Days : verifyAttendance(a, d)) \/ getAttendanceCount(a) # 0)
      => (getStudentByAddress(a).isRegistered /\ a \in EverRegistered)

\* one of two callers is a student with a mark, the other has neither a
\* record nor a count and is refused
C33_Witness ==
  \E a \in Registered, b \in Callers \ Registered :
    /\ getAttendanceCount(a) = 1
    /\ verifyAttendance(a, TodayNow)
    /\ getAttendanceCount(b) = 0
    /\ isSystemActive
    /\ TryMark(b).err = ErrNotRegistered

\* ------------------------------------------------------------------ C34
\* C34: every attendance record agrees with its key and its student: for a
\* record stored under (identity, dayIndex), timestamp / ONE_DAY rounded
\* down is dayIndex and the record's matric number is the matric number of
\* the identity's student record
C34_RecordConsistent ==
  \A a \in Addr, d \in Days : verifyAttendance(a, d) =>
    /\ Today(getAttendanceRecord(a, d).timestamp) = d
    /\ attendanceRecords[a][d].matricNumber
         = getStudentByAddress(a).matricNumber
    /\ attendanceRecords[a][d].matricNumber # EmptyString

\* a record made in the middle of day 1 is looked at on day 2
C34_Witness ==
  \E a \in Registered :
    /\ verifyAttendance(a, 1)
    /\ getAttendanceRecord(a, 1).timestamp % ONE_DAY # 0
    /\ TodayNow = 2

\* ------------------------------------------------------------------ C35
\* C35: the null identity has no student record, is not in the registered
\* list, and no bound matric number resolves to it, so a matric number
\* resolves to the null identity exactly when no registration bound it
C35_NullIdentity ==
  /\ getStudentByAddress(NullAddress) = NoStudent
  /\ \A i \in 1..Len(getRegisteredUsers) :
       getRegisteredUsers[i] # NullAddress
  /\ NullAddress \notin EverRegistered
  /\ \A m \in MatricNumbers :
       /\ matricToAddress[m] = NullAddress <=> m \notin EverBound
       /\ getStudentAddressByMatric(m).err = Ok =>
            getStudentAddressByMatric(m).ret # NullAddress

\* with a student registered, the admin's registration of the null address
\* with a fresh matric number is refused and the number stays unbound
C35_Witness ==
  \E m \in NonEmptyMatrics :
    /\ count = 1
    /\ m \notin EverBound
    /\ TryRegister(admin, NullAddress, m, <<1>>).err = ErrInvalidAddress
    /\ getStudentAddressByMatric(m).err = ErrNotFound

\* ------------------------------------------------------------------ C36
\* C36: the active flag is the value carried by the latest
\* SystemStateChanged event, or true when there is none
C36_FlagIsLastEvent ==
  isSystemActive =
    (IF EventsOf("SystemStateChanged") = {} THEN TRUE
     ELSE LET last == CHOOSE k \in EventsOf("SystemStateChanged") :
                        \A j \in EventsOf("SystemStateChanged") : j <= k
          IN events[last].isActive)

\* off, on, then a registration: the latest state event says on
C36_Witness ==
  /\ Len(events) = 3
  /\ events[1] = [type |-> "SystemStateChanged", isActive |-> FALSE]
  /\ events[2] = [type |-> "SystemStateChanged", isActive |-> TRUE]
  /\ events[3].type = "UserRegistered"
  /\ isSystemActive

\* ------------------------------------------------------------------ C37
\* C37: the admin is not excluded from being a student. While it is not
\* registered, its registerUser of itself with a fresh matric number and a
\* name succeeds, and then it can mark like any student; once it is a
\* student it marks exactly when a student can, and it is still the admin:
\* it alone can register and toggle
C37_OwnerCanBeStudent ==
  /\ ~students[admin].isRegistered =>
       \A m \in NonEmptyMatrics \ EverBound, n \in NonEmptyNames :
         LET r == TryRegister(admin, admin, m, n)
         IN /\ r.err = Ok
            /\ r.st.students[admin].isRegistered
            /\ r.st.admin = admin
            /\ isSystemActive =>
                 markAttendance(r.st, admin, blockTimestamp).err = Ok
  /\ students[admin].isRegistered =>
       /\ TryMark(admin).err = Ok <=>
            (isSystemActive /\ ~verifyAttendance(admin, TodayNow))
       /\ TryToggle(admin).err = Ok
       /\ \A c \in Callers \ {admin} :
            /\ TryToggle(c).err \in Unauthorized
            /\ \A u \in Callers, m \in NonEmptyMatrics :
                 TryRegister(c, u, m, <<1>>).err \in Unauthorized
       /\ \A u \in Callers \ Registered, m \in NonEmptyMatrics \ EverBound :
            TryRegister(admin, u, m, <<1>>).err = Ok

\* the admin registered itself and marked; it can still toggle and register
\* another student, and the other caller can do neither
C37_Witness ==
  \E c \in Callers \ Registered, m \in NonEmptyMatrics :
    /\ admin \in Registered
    /\ getAttendanceCount(admin) = 1
    /\ TryToggle(admin).err = Ok
    /\ TryRegister(admin, c, m, <<1>>).err = Ok
    /\ TryToggle(c).err = ErrOnlyAdmin
    /\ TryRegister(c, c, m, <<1>>).err = ErrOnlyAdmin

\* ------------------------------------------------------------------ C38
\* C38: when connectWallet is invoked for a wallet whose address is the
\* ledger admin, the service is initialized by the time connectWallet calls
\* getAttendanceService: the call does not throw "Service not initialized"
\* and connectWallet completes with isAdmin = true
C38_ConnectAdmin ==
  (web3Address = admin /\ ~connecting) =>
    (web3Error # ErrNotInitialized /\ isAdmin)

\* ------------------------------------------------------------------ C39
\* C39: a service that holds a signer, given to the constructor or to
\* setSigner, has its contract connected to that signer, so a write that
\* passes the "No signer available" guard is sent by the signer; a service
\* without a signer throws "No signer available" and submits nothing
C39_SignerConnected ==
  /\ (attendanceService # NoService /\ attendanceService.signer # NoSigner)
       => /\ attendanceService.runner = attendanceService.signer
          /\ ServiceWriteCheck(attendanceService) = Ok
  /\ (attendanceService # NoService /\ attendanceService.signer = NoSigner)
       => ServiceWriteCheck(attendanceService) = ErrNoSigner
  /\ pc = "awaiting" => (submissions = 1 /\ request.from # NoSigner)
  /\ thrown = ErrNoSigner => submissions = 0
====
